---- MODULE Spec2Model ----
(***************************************************************************)
(* The static summary generator (scripts/generateSummary.ts): the worker   *)
(* pool of run(), the per-document pipeline of processOne, and the text    *)
(* functions it is built from, modelled on sequences of UTF-16 code units. *)
(*                                                                         *)
(* A text is a sequence of one-unit strings.  ASCII units are written as   *)
(* themselves; the non-ASCII units the source names are the definitions    *)
(* FullStop, FullComma, ... below.                                         *)
(***************************************************************************)
EXTENDS Integers, Sequences, FiniteSets, TLC

----------------------------------------------------------------------------
(* Code units                                                              *)

LF == "\n"
CR == "\r"
TAB == "\t"
FullStop == "U+3002"
FullBang == "U+FF01"
FullQuestion == "U+FF1F"
FullComma == "U+FF0C"
FullColon == "U+FF1A"
FullSemi == "U+FF1B"
Ellipsis == "U+2026"
EnumComma == "U+3001"
FullLParen == "U+FF08"
FullRParen == "U+FF09"
LLenticular == "U+3010"
RLenticular == "U+3011"
Quote == "\""
Apostrophe == "U+0027"
Backslash == "\\"
Backtick == "U+0060"

\* \s of the regular expressions, on the units the model uses
Whitespace == {" ", TAB, LF, CR}

Letters ==
  {"a","b","c","d","e","f","g","h","i","j","k","l","m","n","o","p","q","r",
   "s","t","u","v","w","x","y","z","A","B","D","S","T"}

Digits == {"0","1","2","3","4","5","6","7","8","9"}

\* \w of the regular expressions
WordChars == Letters \cup Digits \cup {"_"}

----------------------------------------------------------------------------
(* String primitives of the runtime, as the source uses them               *)

SetMin(S) == CHOOSE x \in S : \A y \in S : x <= y

SetMax(S) == CHOOSE x \in S : \A y \in S : x >= y

\* String.prototype.slice(0, n)
Slice(s, n) == SubSeq(s, 1, IF n < Len(s) THEN n ELSE Len(s))

\* the text from position i on
From(s, i) == SubSeq(s, i, Len(s))

\* whether the units of t stand in s from position i
StartsAt(s, i, t) ==
  /\ i >= 1
  /\ i + Len(t) - 1 <= Len(s)
  /\ \A k \in 1..Len(t) : s[i + k - 1] = t[k]

RECURSIVE DropWhile(_, _)
DropWhile(s, class) ==
  IF s = <<>> \/ Head(s) \notin class THEN s ELSE DropWhile(Tail(s), class)

RECURSIVE DropTrailing(_, _)
DropTrailing(s, class) ==
  IF s = <<>> \/ s[Len(s)] \notin class THEN s
  ELSE DropTrailing(SubSeq(s, 1, Len(s) - 1), class)

\* String.prototype.trim
Trim(s) == DropTrailing(DropWhile(s, Whitespace), Whitespace)

\* replace(/[class]+/g, c): every maximal run of class units becomes one c
RECURSIVE ReplaceRuns(_, _, _)
ReplaceRuns(s, class, c) ==
  IF s = <<>> THEN <<>>
  ELSE IF Head(s) \in class
       THEN <<c>> \o ReplaceRuns(DropWhile(Tail(s), class), class, c)
       ELSE <<Head(s)>> \o ReplaceRuns(Tail(s), class, c)

\* replace(/[class]/g, empty)
RemoveChars(s, class) == SelectSeq(s, LAMBDA c : c \notin class)

\* replace(/\s{2,}/g, space): a run of two or more whitespace units becomes
\* one space; a single whitespace unit stays what it is
RECURSIVE CollapseWhitespace(_)
CollapseWhitespace(s) ==
  IF s = <<>> THEN <<>>
  ELSE IF Head(s) \in Whitespace
       THEN LET rest == DropWhile(Tail(s), Whitespace)
            IN (IF Len(s) - Len(rest) >= 2 THEN <<" ">> ELSE <<Head(s)>>)
               \o CollapseWhitespace(rest)
       ELSE <<Head(s)>> \o CollapseWhitespace(Tail(s))

\* replace(/\r?\n+/g, space)
RECURSIVE NewlinesToSpace(_)
NewlinesToSpace(s) ==
  IF s = <<>> THEN <<>>
  ELSE IF Head(s) = LF
       THEN <<" ">> \o NewlinesToSpace(DropWhile(Tail(s), {LF}))
       ELSE IF Head(s) = CR /\ Len(s) >= 2 /\ s[2] = LF
            THEN <<" ">> \o NewlinesToSpace(DropWhile(Tail(s), {LF}))
            ELSE <<Head(s)>> \o NewlinesToSpace(Tail(s))

\* split(/[class]+/): the pieces between the maximal runs of class units
RECURSIVE SplitOnRuns(_, _)
SplitOnRuns(s, class) ==
  LET hits == {i \in 1..Len(s) : s[i] \in class}
  IN IF hits = {} THEN <<s>>
     ELSE LET i == SetMin(hits)
          IN <<SubSeq(s, 1, i - 1)>>
             \o SplitOnRuns(DropWhile(From(s, i), class), class)

\* split on LF
RECURSIVE SplitLines(_)
SplitLines(s) ==
  LET hits == {i \in 1..Len(s) : s[i] = LF}
  IN IF hits = {} THEN <<s>>
     ELSE LET i == SetMin(hits)
          IN <<SubSeq(s, 1, i - 1)>> \o SplitLines(From(s, i + 1))

\* Array.prototype.join(sep)
RECURSIVE Join(_, _)
Join(parts, sep) ==
  IF parts = <<>> THEN <<>>
  ELSE IF Len(parts) = 1 THEN parts[1]
       ELSE parts[1] \o sep \o Join(Tail(parts), sep)

EndsWith(s, c) == s # <<>> /\ s[Len(s)] = c

----------------------------------------------------------------------------
(* toDeclarativeSentence                                                   *)

SUMMARY_MAX_LEN == 500

\* the three symbol classes removed at lines 569-571; the class of line 570
\* holds the ASCII space
Decorative ==
  {Quote, Apostrophe, Backtick, "~", "^", "_", "*", "@", "#", "$", "%", "&",
   "+", "=", "<", ">"}
  \cup {"(", ")", "[", "]", "{", "}", FullLParen, " ", FullRParen,
        LLenticular, RLenticular}
  \cup {"|", Backslash, "/"}

\* the class the sentence is split on (line 575)
Terminators == {FullStop, FullBang, FullQuestion, "!", Ellipsis}

\* the class stripped from the end of the clause (lines 587, 590)
TrailingSeparators == {FullComma, EnumComma, FullColon, FullSemi}

\* lines 560-565
UnifyPunctuation(s) ==
  LET s1 == ReplaceRuns(s, {".", ";"}, FullStop)
      s2 == ReplaceRuns(s1, {"!", "?"}, FullBang)
      s3 == ReplaceRuns(s2, {",", FullComma}, FullComma)
      s4 == ReplaceRuns(s3, {":", FullColon}, FullColon)
  IN ReplaceRuns(s4, {";", FullSemi}, FullSemi)

\* lines 574-581
MergeClauses(s) ==
  LET split == SplitOnRuns(s, Terminators)
      parts == SelectSeq([i \in 1..Len(split) |-> Trim(split[i])],
                         LAMBDA t : t # <<>>)
      merged == Join(parts, <<FullComma>>)
  IN Trim(ReplaceRuns(CollapseWhitespace(merged), {FullComma}, FullComma))

\* lines 583-591: the clause cut to max(1, maxLen - 1) units
CoreMax(maxLen) == IF maxLen - 1 > 1 THEN maxLen - 1 ELSE 1

toDeclarativeSentence(text, maxLen) ==
  LET s == RemoveChars(UnifyPunctuation(text), Decorative)
      merged == MergeClauses(s)
      cut == IF Len(merged) > CoreMax(maxLen)
             THEN DropTrailing(Slice(merged, CoreMax(maxLen)), TrailingSeparators)
             ELSE DropTrailing(merged, TrailingSeparators)
  IN IF EndsWith(cut, FullStop) THEN cut ELSE cut \o <<FullStop>>

----------------------------------------------------------------------------
(* Markdown stripping: sanitizeSummaryText, localGenerateSummary           *)

Fence == <<Backtick, Backtick, Backtick>>

\* the first position >= from where a fence stands, 0 if none
FirstFence(s, from) ==
  LET hits == {i \in from..Len(s) : StartsAt(s, i, Fence)}
  IN IF hits = {} THEN 0 ELSE SetMin(hits)

\* replace(/FENCE[\s\S]*?FENCE/g, empty): leftmost opening fence, nearest
\* closing fence, repeated on what follows
RECURSIVE RemoveFenced(_)
RemoveFenced(s) ==
  LET i == FirstFence(s, 1)
      j == IF i = 0 THEN 0 ELSE FirstFence(s, i + 3)
  IN IF j = 0 THEN s
     ELSE SubSeq(s, 1, i - 1) \o RemoveFenced(From(s, j + 3))

\* replace(/TICK[^TICK]*TICK/g, empty): leftmost backtick up to the next one
RECURSIVE RemoveInlineCode(_)
RemoveInlineCode(s) ==
  LET ticks == {i \in 1..Len(s) : s[i] = Backtick}
  IN IF Cardinality(ticks) < 2 THEN s
     ELSE LET i == SetMin(ticks)
              j == SetMin(ticks \ {i})
          IN SubSeq(s, 1, i - 1) \o RemoveInlineCode(From(s, j + 1))

\* The units on which the remaining replacements of sanitizeSummaryText and
\* localGenerateSummary act: images and links ([ ] !), emphasis (* _),
\* headings (#), quotes (> at a line start), list markers (- * + or a digit
\* run and a dot, at a line start) and tags (<).  A text without brackets,
\* emphasis marks, hashes, hyphens, plus signs, digits and angle brackets
\* other than the > of an arrow passes those replacements unchanged, and the
\* model feeds only such texts to the two functions.
MarkupFree(s) ==
  \A i \in 1..Len(s) :
    /\ s[i] \notin {"[", "]", "*", "_", "#", "<", "-", "+"} \cup Digits
    /\ s[i] = ">" => (i > 1 /\ s[i - 1] = "=")

\* lines 471-498
sanitizeSummaryText(text, maxLen) ==
  IF text = <<>> THEN <<>>
  ELSE LET s == Trim(CollapseWhitespace(NewlinesToSpace(RemoveFenced(text))))
       IN IF s = <<>> THEN <<>> ELSE toDeclarativeSentence(s, maxLen)

\* the placeholder sentence of line 545 (eleven ideographs and a full stop)
PlaceholderSentence ==
  <<"U+672C", "U+6587", "U+4ECB", "U+7ECD", "U+76F8", "U+5173", "U+4E3B",
    "U+9898", "U+4E0E", "U+6B65", "U+9AA4", FullStop>>

\* lines 527-548
localGenerateSummary(title, body, maxLen) ==
  LET clean == Trim(CollapseWhitespace(NewlinesToSpace(
                 RemoveInlineCode(RemoveFenced(body)))))
  IN IF clean = <<>>
     THEN toDeclarativeSentence(
            IF title # <<>> THEN title ELSE PlaceholderSentence, maxLen)
     ELSE toDeclarativeSentence(clean, maxLen)

----------------------------------------------------------------------------
(* looksLikeCode                                                           *)

Keywords ==
  { <<"i","m","p","o","r","t">>, <<"e","x","p","o","r","t">>,
    <<"c","o","n","s","t">>, <<"l","e","t">>, <<"v","a","r">>,
    <<"f","u","n","c","t","i","o","n">>,
    <<"i","n","t","e","r","f","a","c","e">>, <<"c","l","a","s","s">>,
    <<"r","e","t","u","r","n">>, <<"n","e","w">> }

KeywordFunction == <<"f","u","n","c","t","i","o","n">>

StructuralPunctuation == {"{", "}", "(", ")", ";", "[", "]"}

\* /FENCE[\s\S]*?FENCE/.test
HasFencedCode(s) ==
  FirstFence(s, 1) # 0 /\ FirstFence(s, FirstFence(s, 1) + 3) # 0

\* /TICK[^TICK]+TICK/.test
HasInlineCode(s) ==
  \E i, j \in 1..Len(s) :
    /\ j >= i + 2
    /\ s[i] = Backtick /\ s[j] = Backtick
    /\ \A k \in (i + 1)..(j - 1) : s[k] # Backtick

\* /\b(import|...|new)\b/.test
HasKeyword(s) ==
  \E kw \in Keywords : \E i \in 1..Len(s) :
    /\ StartsAt(s, i, kw)
    /\ i = 1 \/ s[i - 1] \notin WordChars
    /\ i + Len(kw) > Len(s) \/ s[i + Len(kw)] \notin WordChars

\* /\w+\s*=>/.test
HasArrow(s) ==
  \E i \in 1..Len(s) :
    /\ StartsAt(s, i, <<"=", ">">>)
    /\ \E k \in 1..(i - 1) :
         /\ s[k] \in WordChars
         /\ \A m \in (k + 1)..(i - 1) : s[m] \in Whitespace

\* /\w+\.\w+/.test
HasDottedAccess(s) ==
  \E i \in 2..(Len(s) - 1) :
    s[i] = "." /\ s[i - 1] \in WordChars /\ s[i + 1] \in WordChars

\* lines 512-519
CodeScore(s) ==
  (IF HasFencedCode(s) THEN 2 ELSE 0)
  + (IF HasInlineCode(s) THEN 1 ELSE 0)
  + (IF HasKeyword(s) THEN 2 ELSE 0)
  + (IF HasArrow(s) THEN 1 ELSE 0)
  + (IF HasDottedAccess(s) THEN 1 ELSE 0)
  + (IF Cardinality({i \in 1..Len(s) : s[i] \in StructuralPunctuation}) >= 3
     THEN 1 ELSE 0)

\* lines 510-521
looksLikeCode(text) == text # <<>> /\ CodeScore(text) >= 2

----------------------------------------------------------------------------
(* Front-matter: split, merge, read, upsert                                *)

Dashes == <<"-", "-", "-">>

\* the i flag of the regular expressions, on the capitals the model uses
ToLower(c) ==
  CASE c = "S" -> "s" [] c = "T" -> "t" [] c = "A" -> "a"
    [] c = "B" -> "b" [] c = "D" -> "d" [] OTHER -> c

LowerText(s) == [i \in 1..Len(s) |-> ToLower(s[i])]

SummaryKey == <<"s","u","m","m","a","r","y">>

\* the length of the whitespace run that starts at position i
WhitespaceRun(s, i) == Len(From(s, i)) - Len(DropWhile(From(s, i), Whitespace))

\* /^\s*summary\s*:/i.test(line)
IsSummaryLine(line) ==
  LET t == DropWhile(LowerText(line), Whitespace)
      r == DropWhile(From(t, Len(SummaryKey) + 1), Whitespace)
  IN StartsAt(t, 1, SummaryKey) /\ r # <<>> /\ Head(r) = ":"

\* /^\s*FENCE/.test(line)
IsFenceLine(line) == StartsAt(DropWhile(line, Whitespace), 1, Fence)

\* /^\s*[A-Za-z_][\w-]*\s*:/.test(line)
IsYamlKeyLine(line) ==
  LET t == DropWhile(line, Whitespace)
      r == IF t = <<>> THEN <<>>
           ELSE DropWhile(DropWhile(Tail(t), WordChars \cup {"-"}), Whitespace)
  IN /\ t # <<>>
     /\ Head(t) \in Letters \cup {"_"}
     /\ r # <<>> /\ Head(r) = ":"

\* /^\s*-\s+.+/.test(line)
IsYamlListItemLine(line) ==
  LET t == DropWhile(line, Whitespace)
  IN /\ t # <<>> /\ Head(t) = "-"
     /\ \E k \in 1..WhitespaceRun(t, 2) :
          2 + k <= Len(t) /\ t[2 + k] \notin {LF, CR}

\* /^\s*#/.test(line)
IsYamlCommentLine(line) ==
  LET t == DropWhile(line, Whitespace) IN t # <<>> /\ Head(t) = "#"

\* /^\s*$/.test(line)
IsBlankLine(line) == DropWhile(line, Whitespace) = <<>>

\* split(/\r?\n/)
StripCR(line) == IF EndsWith(line, CR) THEN SubSeq(line, 1, Len(line) - 1) ELSE line

SplitLinesCRLF(s) ==
  LET ls == SplitLines(s)
  IN [i \in 1..Len(ls) |-> IF i < Len(ls) THEN StripCR(ls[i]) ELSE ls[i]]

\* findIndex((l, i) => i > 0 && l.trim() === '---'), as a 1-based index;
\* the caller's default when there is none
ClosingIndex(lines, default) ==
  LET hits == {i \in 2..Len(lines) : Trim(lines[i]) = Dashes}
  IN IF hits = {} THEN default ELSE SetMin(hits)

\* lines 643-647
escapeYaml(text) ==
  LET RECURSIVE Esc(_)
      Esc(t) == IF t = <<>> THEN <<>>
                ELSE (IF Head(t) = Quote THEN <<Backslash, Quote>> ELSE <<Head(t)>>)
                     \o Esc(Tail(t))
  IN <<Quote>> \o Esc(text) \o <<Quote>>

SummaryLine(summary) ==
  SummaryKey \o <<":", " ">> \o escapeYaml(summary)

\* lines 617-625: the lines of the old block that are kept
KeepsLine(l) ==
  /\ ~IsSummaryLine(l)
  /\ ~IsFenceLine(l)
  /\ IsYamlKeyLine(l) \/ IsYamlListItemLine(l) \/ IsYamlCommentLine(l) \/ IsBlankLine(l)

\* lines 605-635
upsertSummaryInFrontmatter(frontmatter, summary) ==
  IF frontmatter = <<>>
  THEN Dashes \o <<LF>> \o SummaryLine(summary) \o <<LF>> \o Dashes \o <<LF>>
  ELSE LET lines == SplitLines(frontmatter)
           endIdx == ClosingIndex(lines, Len(lines) + 1)
           bodyLines == SelectSeq(SubSeq(lines, 2, endIdx - 1), KeepsLine)
           rebuilt == <<Dashes>> \o bodyLines \o <<SummaryLine(summary), Dashes>>
           fmStr == Join(rebuilt, <<LF>>)
       IN IF EndsWith(fmStr, LF) THEN fmStr ELSE fmStr \o <<LF>>

\* lines 446-460
mergeFrontmatterBlocks(fm1, fm2) ==
  LET lines1 == SplitLinesCRLF(fm1)
      lines2 == SplitLinesCRLF(fm2)
      inner1 == SubSeq(lines1, 2, ClosingIndex(lines1, Len(lines1) + 1) - 1)
      inner2 == SubSeq(lines2, 2, ClosingIndex(lines2, Len(lines2) + 1) - 1)
      cleaned1 == SelectSeq(inner1, LAMBDA l : ~IsSummaryLine(l))
      cleaned2 == SelectSeq(inner2, LAMBDA l : ~IsSummaryLine(l))
      fmStr == Join(<<Dashes>> \o cleaned1 \o cleaned2 \o <<Dashes>>, <<LF>>)
  IN IF EndsWith(fmStr, LF) THEN fmStr ELSE fmStr \o <<LF>>

\* /^---\r?\n[\s\S]*?\r?\n---(?=\r?\n|$)/.exec(s): the length of the match,
\* 0 when there is none.  The lazy middle makes the match end at the first
\* line feed after the opening line that is followed by three dashes and
\* then by a line break or the end of the text.
FrontmatterMatchLen(s) ==
  LET open == IF StartsAt(s, 1, Dashes \o <<LF>>) THEN 4
              ELSE IF StartsAt(s, 1, Dashes \o <<CR, LF>>) THEN 5 ELSE 0
      closes == {q \in (open + 1)..Len(s) :
                   /\ s[q] = LF
                   /\ StartsAt(s, q + 1, Dashes)
                   /\ \/ q + 3 = Len(s)
                      \/ StartsAt(s, q + 4, <<LF>>)
                      \/ StartsAt(s, q + 4, <<CR, LF>>)}
  IN IF open = 0 \/ closes = {} THEN 0 ELSE SetMin(closes) + 3

\* replace(/^\r?\n*/, empty)
StripLeadingNewlines(s) ==
  DropWhile(IF s # <<>> /\ Head(s) = CR THEN Tail(s) ELSE s, {LF})

\* lines 388-415
splitFrontmatterAndBody(raw) ==
  LET content == DropWhile(raw, Whitespace)
      n == FrontmatterMatchLen(content)
      tail == From(content, n + 1)
      n2 == FrontmatterMatchLen(tail)
  IN IF n = 0 THEN [frontmatter |-> <<>>, body |-> content]
     ELSE IF n2 # 0
          THEN [frontmatter |-> mergeFrontmatterBlocks(SubSeq(content, 1, n),
                                                       SubSeq(tail, 1, n2)),
                body |-> StripLeadingNewlines(From(tail, n2 + 1))]
          ELSE [frontmatter |-> SubSeq(content, 1, n),
                body |-> StripLeadingNewlines(tail)]

\* lines 424-437
extractBodyOnly(raw) ==
  LET s == DropWhile(raw, Whitespace)
      n == FrontmatterMatchLen(s)
      tail == From(s, n + 1)
      n2 == FrontmatterMatchLen(tail)
  IN IF n = 0 THEN s
     ELSE StripLeadingNewlines(IF n2 # 0 THEN From(tail, n2 + 1) ELSE tail)

\* lines 235-238: /(^|\n)\s*summary\s*:/i.test(frontmatter)
hasSummaryInFrontmatter(frontmatter) ==
  /\ frontmatter # <<>>
  /\ \E p \in 1..Len(frontmatter) :
       /\ p = 1 \/ frontmatter[p - 1] = LF
       /\ IsSummaryLine(From(frontmatter, p))

\* lines 360-363
limitBody(body, maxChars) ==
  IF maxChars <= 0 THEN body
  ELSE IF Len(body) > maxChars THEN Slice(body, maxChars) ELSE body

QuoteMarks == {Quote, Apostrophe}

TitleKey == <<LF, "t", "i", "t", "l", "e", ":">>

\* /\ntitle:\s*['"]?([^'"]+)['"]?\s*\n/: the ways the pattern matches with
\* its \ntitle: at position i, each as <<k, c, e>>: k units of whitespace
\* after the colon, the capture from c to e.  The class [^'"] holds the line
\* feed, so a capture may run over several lines; the tail ['"]?\s*\n needs
\* a line feed after the capture.
TitleMatches(fm, i) ==
  LET p0 == i + Len(TitleKey)
      TailOk(r) == \E n \in r..Len(fm) :
                     fm[n] = LF /\ \A m \in r..(n - 1) : fm[m] \in Whitespace
      AfterCapture(r) == \/ TailOk(r)
                         \/ r <= Len(fm) /\ fm[r] \in QuoteMarks /\ TailOk(r + 1)
  IN {m \in (0..WhitespaceRun(fm, p0)) \X (p0..Len(fm)) \X (p0..Len(fm)) :
        LET q == p0 + m[1]
        IN /\ m[2] = IF q <= Len(fm) /\ fm[q] \in QuoteMarks THEN q + 1 ELSE q
           /\ m[2] <= m[3]
           /\ \A x \in m[2]..m[3] : fm[x] \notin QuoteMarks
           /\ AfterCapture(m[3] + 1)}

\* lines 701-704: the leftmost match; the greedy \s* and the greedy capture
\* make it the match with the longest whitespace run and then the longest
\* capture
readTitleFromFrontmatter(frontmatter) ==
  LET starts == {i \in 1..Len(frontmatter) :
                   StartsAt(frontmatter, i, TitleKey)
                   /\ TitleMatches(frontmatter, i) # {}}
  IN IF starts = {} THEN <<>>
     ELSE LET ms == TitleMatches(frontmatter, SetMin(starts))
              k == SetMax({m[1] : m \in ms})
              e == SetMax({m[3] : m \in {x \in ms : x[1] = k}})
              m == CHOOSE x \in ms : x[1] = k /\ x[3] = e
          IN Trim(SubSeq(frontmatter, m[2], m[3]))

----------------------------------------------------------------------------
(* processOne, the pure part: from the content read to the content written *)

\* the default of getWordLimit (line 145)
DefaultWordLimit == 8000

\* what callSummaryAPI resolves to: null, or the trimmed summary string
NoSummary == [isNull |-> TRUE, text |-> <<>>]

ApiText(t) == [isNull |-> FALSE, text |-> Trim(t)]

\* lines 785-787: whether the answer of callSummaryAPI is kept
ApiSummaryAccepted(apiSummary) ==
  LET summaryRaw == IF apiSummary.isNull THEN <<>> ELSE apiSummary.text
      summary == sanitizeSummaryText(summaryRaw, SUMMARY_MAX_LEN)
  IN ~(summary = <<>> \/ looksLikeCode(summary))

\* lines 784-794: the summary that is written and where it came from
ChooseSummary(apiSummary, title, limitedBody) ==
  IF ApiSummaryAccepted(apiSummary)
  THEN [source |-> "api",
        text |-> toDeclarativeSentence(
                   sanitizeSummaryText(apiSummary.text, SUMMARY_MAX_LEN),
                   SUMMARY_MAX_LEN)]
  ELSE [source |-> "local",
        text |-> toDeclarativeSentence(
                   localGenerateSummary(title, limitedBody, SUMMARY_MAX_LEN),
                   SUMMARY_MAX_LEN)]

\* lines 747-751 and 784-797: the content written for the content read
RewrittenDocument(content, apiSummary, limit) ==
  LET parts == splitFrontmatterAndBody(content)
      title == readTitleFromFrontmatter(parts.frontmatter)
      limitedBody == limitBody(extractBodyOnly(content), limit)
      chosen == ChooseSummary(apiSummary, title, limitedBody)
      nextFrontmatter == upsertSummaryInFrontmatter(parts.frontmatter, chosen.text)
  IN [frontmatter |-> nextFrontmatter,
      body |-> parts.body,
      source |-> chosen.source,
      summary |-> chosen.text,
      content |-> nextFrontmatter \o parts.body]

----------------------------------------------------------------------------
(* State                                                                   *)

VARIABLES
  phase,        \* run(): "init", "spawning", "running", "finished", "failed"
  exitCode,     \* process.exitCode
  policy,       \* overwritePolicy
  configured,   \* what getConcurrency returned
  api,          \* the endpoint: "none" (not configured), "up", "silent"
  files,        \* the number of entries findMarkdownEntries returns
  queue,        \* the shared queue of run()
  spawned,      \* how many worker() calls Array.from has made
  concurrency,  \* the local concurrency of run() after the ask adjustment
  pc,           \* per worker: where its coroutine is suspended
  cur,          \* per worker: the document its processOne holds, 0 if none
  doc,          \* per document: its file and what has happened to it
  seen,         \* per worker: the answer and the response that concluded
                \* the document it has just left
  stage,        \* a function under study: "idle", "ready", "done"
  input,        \* its arguments
  output        \* its result

poolVars ==
  <<phase, exitCode, policy, configured, api, files, queue, spawned,
    concurrency, pc, cur, doc, seen>>

callVars == <<stage, input, output>>

vars == <<poolVars, callVars>>

----------------------------------------------------------------------------
(* Bounds                                                                  *)

MaxTextLen == 3
MaxSentenceLen == 3
MaxChunks == 3
MaxFmLines == 2
MaxSummaryLen == 2
MaxBlockLines == 2
MaxHeaderLines == 3
MaxValueLen == 2
MaxKeyLen == 2

\* all texts of at most n units over the alphabet A
TextsUpTo(A, n) == UNION {[1..k -> A] : k \in 0..n}

RECURSIVE Flatten(_)
Flatten(parts) ==
  IF parts = <<>> THEN <<>> ELSE Head(parts) \o Flatten(Tail(parts))

\* the pool at rest, for the specifications that study one function
PoolAtRest ==
  /\ phase = "init" /\ exitCode = 0 /\ policy = "never" /\ configured = 1
  /\ api = "none" /\ files = 0 /\ queue = <<>> /\ spawned = 0
  /\ concurrency = 1 /\ pc = <<>> /\ cur = <<>> /\ doc = <<>>
  /\ seen = <<>>

----------------------------------------------------------------------------
(* run(): the worker pool                                                  *)

Policies == {"ask", "always", "never"}

\* the summary endpoint: not configured, answering, refusing every call, or
\* accepting the request and never answering
Endpoints == {"none", "up", "down", "silent"}

\* the upper clamp of clampConcurrency (line 204)
MaxConcurrency == 5

Workers == 1..MaxConcurrency

MaxDocs == 2

\* the per-document counters stop counting here
CounterCap == 2

Count(n) == IF n < CounterCap THEN n + 1 ELSE CounterCap

\* what the operator may type at a prompt
Answers == {"", "y", "yes", "Y", "n", "no", "x"}

\* (ans || empty).trim().toLowerCase()
NormalizeAnswer(ans) == IF ans = "Y" THEN "y" ELSE ans

\* a prompt that takes every answer but an explicit refusal as consent
promptAcceptsUnlessRefused(ans, defaultYes) ==
  NormalizeAnswer(ans) \notin {"n", "no"}

\* lines 306-317
promptYesNo(ans, defaultYes) ==
  LET v == NormalizeAnswer(ans)
  IN IF v = "" THEN defaultYes ELSE v \in {"y", "yes"}

\* what a 2xx response may carry in its summary field: prose, the empty
\* string, a fenced block with prose after it, a bare keyword
SampleResponses ==
  { <<"a", " ", "b">>,
    <<>>,
    Fence \o KeywordFunction \o Fence \o <<"a">>,
    KeywordFunction }

\* how the specification of the summary field classes a response text
ResponseClass(t) ==
  IF Trim(t) = <<>> THEN "empty"
  ELSE IF CodeScore(t) >= 2 THEN "code_like" ELSE "prose"

FreshDocument(has) ==
  [hasSummary |-> has, disk |-> "original", outcome |-> "pending",
   dispatched |-> 0, prompts |-> 0, requests |-> 0]

NothingSeen == [doc |-> 0, answer |-> "none", response |-> "none"]

\* the configured concurrency, not lowered for the interactive policy
ConfiguredConcurrency(pol, c) == c

\* lines 735-738
EffectiveConcurrency(pol, c) == IF pol = "ask" /\ c > 1 THEN 1 ELSE c

\* a pop that leaves the head in the queue
ShiftKeepsHead(q) == q

\* a pop that takes two items and hands out one
ShiftDropsNext(q) == IF Len(q) > 1 THEN Tail(Tail(q)) ELSE Tail(q)

\* line 810: queue.shift() leaves the rest of the queue
Shift(q) == Tail(q)

\* lines 754-770: what an existing summary means under the policy
OverwriteDecision(pol, has) ==
  IF ~has THEN "proceed"
  ELSE IF pol = "never" THEN "skip"
       ELSE IF pol = "ask" THEN "ask" ELSE "proceed"

\* a processOne without its catch: the error rejects the worker
RethrowDocumentError(rec) ==
  [rec |-> [rec EXCEPT !.outcome = "failed"], pc |-> "crashed"]

\* lines 800-803: the catch of processOne logs and returns
OnDocumentError(rec) ==
  [rec |-> [rec EXCEPT !.outcome = "failed"], pc |-> "loop"]

\* lines 796-799: writeFileSync replaces the content or throws with the file
\* as it was
WriteOut(rec, source) ==
  { [rec |-> [rec EXCEPT !.disk = source, !.outcome = "written"], pc |-> "loop"],
    OnDocumentError(rec) }

\* lines 776-784: with an endpoint the request is sent, without one the
\* local summary is written at once
Generate(rec) ==
  IF api # "none"
  THEN {[rec |-> [rec EXCEPT !.requests = Count(@)], pc |-> "fetch"]}
  ELSE WriteOut(rec, "local")

\* lines 747-770: processOne up to its first suspension
StartDocument(rec) ==
  {OnDocumentError(rec)}
  \cup (IF OverwriteDecision(policy, rec.hasSummary) = "skip"
        THEN {[rec |-> [rec EXCEPT !.outcome = "skipped"], pc |-> "loop"]}
        ELSE IF OverwriteDecision(policy, rec.hasSummary) = "ask"
             THEN {[rec |-> [rec EXCEPT !.prompts = Count(@)], pc |-> "prompt"]}
             ELSE Generate(rec))

\* lines 762-768: the answer to the prompt
AfterAnswer(rec, ans) ==
  IF promptYesNo(ans, FALSE)
  THEN Generate(rec)
  ELSE {[rec |-> [rec EXCEPT !.outcome = "skipped"], pc |-> "loop"]}

\* lines 785-799: from the answer of callSummaryAPI to the write
Conclude(rec, apiSummary) ==
  WriteOut(rec, IF ApiSummaryAccepted(apiSummary) THEN "api" ELSE "local")

Suspended == {"prompt", "fetch", "json"}

\* The continuation of an await on a settled promise is a microtask: it runs
\* before the event loop delivers the next answer, settled request or
\* settled body.
NoPendingContinuation == \A w \in Workers : pc[w] # "loop"

Step(w, d, r, ans, class) ==
  /\ doc' = [doc EXCEPT ![d] = r.rec]
  /\ pc' = [pc EXCEPT ![w] = r.pc]
  /\ cur' = [cur EXCEPT ![w] = IF r.pc \in Suspended THEN d ELSE 0]
  /\ seen' = [seen EXCEPT ![w] =
                IF r.pc \in Suspended THEN NothingSeen
                ELSE [doc |-> d, answer |-> ans, response |-> class]]

\* lines 808-813: one turn of the loop of worker(), to the next suspension
WorkerIterate(w) ==
  IF queue = <<>>
  THEN /\ pc' = [pc EXCEPT ![w] = "exited"]
       /\ seen' = [seen EXCEPT ![w] = NothingSeen]
       /\ UNCHANGED <<queue, cur, doc>>
  ELSE /\ queue' = Shift(queue)
       /\ \E r \in StartDocument([doc[Head(queue)] EXCEPT !.dispatched = Count(@)]) :
            Step(w, Head(queue), r, "none", "none")

Init ==
  /\ phase = "init" /\ exitCode = 0
  /\ policy \in Policies
  /\ configured \in 1..MaxConcurrency
  /\ api \in Endpoints
  /\ files \in 0..MaxDocs
  /\ queue = <<>> /\ spawned = 0
  /\ concurrency = configured
  /\ pc = [w \in Workers |-> "unborn"]
  /\ cur = [w \in Workers |-> 0]
  /\ doc \in [1..files -> {FreshDocument(h) : h \in BOOLEAN}]
  /\ seen = [w \in Workers |-> NothingSeen]
  /\ stage = "idle" /\ input = <<>> /\ output = <<>>

\* lines 719 and 818-821: findMarkdownEntries throws, run() rejects
LocatorThrows ==
  /\ phase = "init"
  /\ phase' = "failed" /\ exitCode' = 1
  /\ UNCHANGED <<policy, configured, api, files, queue, spawned, concurrency,
                 pc, cur, doc, seen, callVars>>

\* lines 720-723: nothing to do
NoFiles ==
  /\ phase = "init" /\ files = 0
  /\ phase' = "finished"
  /\ UNCHANGED <<exitCode, policy, configured, api, files, queue, spawned,
                 concurrency, pc, cur, doc, seen, callVars>>

\* lines 724-738 and 807: the queue is built, the concurrency settled
RunStart ==
  /\ phase = "init" /\ files > 0
  /\ queue' = [i \in 1..files |-> i]
  /\ concurrency' = EffectiveConcurrency(policy, configured)
  /\ phase' = "spawning"
  /\ UNCHANGED <<exitCode, policy, configured, api, files, spawned, pc, cur,
                 doc, seen, callVars>>

\* an Array.from that makes a worker for every index up to the clamp
SpawnToClamp ==
  /\ phase = "spawning"
  /\ spawned' = spawned + 1
  /\ phase' = IF spawned + 1 = MaxConcurrency THEN "running" ELSE "spawning"
  /\ WorkerIterate(spawned + 1)
  /\ UNCHANGED <<exitCode, policy, configured, api, files, concurrency, callVars>>

\* line 814: Array.from calls worker() for the next index; the call runs to
\* its first suspension before the next worker is made
Spawn ==
  /\ phase = "spawning"
  /\ spawned' = spawned + 1
  /\ phase' = IF spawned + 1 = concurrency THEN "running" ELSE "spawning"
  /\ WorkerIterate(spawned + 1)
  /\ UNCHANGED <<exitCode, policy, configured, api, files, concurrency, callVars>>

\* line 811: await processOne(...) resumes and the loop goes round
Resume(w) ==
  /\ phase = "running" /\ pc[w] = "loop"
  /\ WorkerIterate(w)
  /\ UNCHANGED <<phase, exitCode, policy, configured, api, files, spawned,
                 concurrency, callVars>>

\* lines 310-315: the operator answers the prompt
PromptAnswer(w) ==
  /\ phase = "running" /\ NoPendingContinuation /\ pc[w] = "prompt"
  /\ \E ans \in Answers : \E r \in AfterAnswer(doc[cur[w]], ans) :
       Step(w, cur[w], r, ans, "none")
  /\ UNCHANGED <<phase, exitCode, policy, configured, api, files, queue,
                 spawned, concurrency, callVars>>

\* lines 686-687 and 691-695: fetch rejects, or resolves with a status.
\* Nothing in callSummaryAPI settles the call when the endpoint is silent.
FetchSettle(w) ==
  /\ phase = "running" /\ NoPendingContinuation /\ pc[w] = "fetch"
  /\ api \in {"up", "down"}
  /\ \/ \E class \in {"network_error", "status_error"} :
          \E r \in Conclude(doc[cur[w]], NoSummary) : Step(w, cur[w], r, "none", class)
     \/ /\ api = "up"
        /\ Step(w, cur[w], [rec |-> doc[cur[w]], pc |-> "json"], "none", "none")
  /\ UNCHANGED <<phase, exitCode, policy, configured, api, files, queue,
                 spawned, concurrency, callVars>>

\* lines 688-695: res.json() rejects, or resolves with the decoded body
JsonSettle(w) ==
  /\ phase = "running" /\ NoPendingContinuation /\ pc[w] = "json"
  /\ \/ \E class \in {"bad_json", "no_summary_field"} :
          \E r \in Conclude(doc[cur[w]], NoSummary) : Step(w, cur[w], r, "none", class)
     \/ \E t \in SampleResponses :
          \E r \in Conclude(doc[cur[w]], ApiText(t)) :
            Step(w, cur[w], r, "none", ResponseClass(t))
  /\ UNCHANGED <<phase, exitCode, policy, configured, api, files, queue,
                 spawned, concurrency, callVars>>

\* lines 815 and 818-821: Promise.all settles; a rejected worker rejects
\* run() and sets the exit code
RunFinish ==
  /\ phase = "running"
  /\ (\E w \in 1..concurrency : pc[w] = "crashed")
       \/ (\A w \in 1..concurrency : pc[w] = "exited")
  /\ phase' = IF \E w \in 1..concurrency : pc[w] = "crashed"
              THEN "failed" ELSE "finished"
  /\ exitCode' = IF \E w \in 1..concurrency : pc[w] = "crashed" THEN 1 ELSE exitCode
  /\ UNCHANGED <<policy, configured, api, files, queue, spawned, concurrency,
                 pc, cur, doc, seen, callVars>>

Next ==
  \/ LocatorThrows
  \/ NoFiles
  \/ RunStart
  \/ Spawn
  \/ \E w \in Workers : Resume(w)
  \/ \E w \in Workers : PromptAnswer(w)
  \/ \E w \in Workers : FetchSettle(w)
  \/ \E w \in Workers : JsonSettle(w)
  \/ RunFinish

Spec == Init /\ [][Next]_vars

\* The event loop runs every continuation that is ready, every settled
\* request is delivered, and the operator answers every prompt.
FairSpec ==
  /\ Spec
  /\ WF_vars(LocatorThrows \/ NoFiles \/ RunStart)
  /\ WF_vars(Spawn)
  /\ WF_vars(\E w \in Workers : Resume(w))
  /\ WF_vars(\E w \in Workers : PromptAnswer(w))
  /\ WF_vars(\E w \in Workers : FetchSettle(w))
  /\ WF_vars(\E w \in Workers : JsonSettle(w))
  /\ WF_vars(RunFinish)

Started == phase \in {"spawning", "running", "finished"}

InQueue(d) == \E i \in 1..Len(queue) : queue[i] = d

\* C1: no document is dispatched twice: a document is either still in the
\* queue or has been handed to processOne exactly once, two workers never
\* hold the same document, and at the end every document was dispatched once.
C1_NoDuplicateDispatch ==
  /\ \A d \in 1..files : doc[d].dispatched <= 1
  /\ Started => \A d \in 1..files : (doc[d].dispatched = 0) <=> InQueue(d)
  /\ \A i, j \in 1..Len(queue) : queue[i] = queue[j] => i = j
  /\ \A v, w \in Workers : (v # w /\ cur[v] # 0) => cur[v] # cur[w]
  /\ (phase = "finished" /\ files > 0) =>
       \A d \in 1..files : doc[d].dispatched = 1

\* two workers are suspended in two documents at once and the queue is empty
C1_Witness ==
  /\ queue = <<>> /\ files >= 2
  /\ \E v, w \in Workers :
       /\ v # w /\ pc[v] \in Suspended /\ pc[w] \in Suspended
       /\ cur[v] # 0 /\ cur[w] # 0 /\ cur[v] # cur[w]

\* C2: under the policy ask the run has one worker whatever concurrency was
\* configured, so at most one prompt is outstanding at any time.
C2_AskSerializesPrompts ==
  /\ policy = "ask" =>
       /\ spawned <= 1
       /\ phase \in {"running", "finished"} /\ files > 0 => spawned = 1
       /\ \A w \in Workers : w > 1 => pc[w] = "unborn"
  /\ Cardinality({w \in Workers : pc[w] = "prompt"}) <= 1
  /\ \A w \in Workers : pc[w] = "prompt" =>
       \A v \in Workers : v # w => pc[v] \in {"unborn", "exited"}

\* five workers were configured, the policy is ask, and the only worker is at
\* the prompt of the second document after the first was answered
C2_Witness ==
  /\ policy = "ask" /\ configured = MaxConcurrency
  /\ pc[1] = "prompt" /\ cur[1] = 2
  /\ doc[1].prompts = 1 /\ doc[1].outcome # "pending"

\* C3: a document with a summary is left untouched under never, is rewritten
\* without a prompt under always, and under ask is prompted for once, the
\* answer no or the empty answer leaving it untouched; a document without a
\* summary is never prompted for and never skipped.  (Rewritten: unless the
\* read or the write of that document fails.)
C3_OverwritePolicyMatrix ==
  \A d \in 1..files :
    LET r == doc[d]
        processed == r.outcome \in {"written", "failed"}
    IN /\ r.prompts <= 1
       /\ ~r.hasSummary =>
            /\ r.prompts = 0 /\ r.outcome # "skipped"
            /\ phase = "finished" => processed
       /\ (r.hasSummary /\ policy = "never") =>
            /\ r.disk = "original" /\ r.prompts = 0 /\ r.requests = 0
            /\ r.outcome # "written"
       /\ (r.hasSummary /\ policy = "always") =>
            /\ r.prompts = 0 /\ r.outcome # "skipped"
            /\ phase = "finished" => processed
       /\ (r.hasSummary /\ policy = "ask") =>
            /\ r.outcome \in {"written", "skipped"} => r.prompts = 1
            /\ \A w \in Workers :
                 (seen[w].doc = d /\ seen[w].answer \in {"", "no"}) =>
                   /\ r.outcome = "skipped" /\ r.disk = "original"
                   /\ r.requests = 0

\* in an interactive run the first document had no summary and was rewritten
\* without a prompt, the second had one and has just been kept on the empty
\* answer to its prompt
C3_Witness ==
  /\ policy = "ask" /\ files >= 2
  /\ ~doc[1].hasSummary /\ doc[1].outcome = "written" /\ doc[1].prompts = 0
  /\ doc[2].hasSummary /\ doc[2].outcome = "skipped" /\ doc[2].prompts = 1
  /\ seen[1].doc = 2 /\ seen[1].answer = ""

C5_SilentEndpointResolves ==
  \A w \in Workers : (pc[w] = "fetch") ~> (pc[w] # "fetch")

\* the end of a run: the queue is empty, every worker has finished and every
\* document was rewritten, skipped or logged as failed
RunComplete ==
  \/ phase = "failed"
  \/ /\ phase = "finished" /\ queue = <<>>
     /\ \A w \in Workers : pc[w] \in {"unborn", "exited"}
     /\ \A d \in 1..files : doc[d].outcome \in {"written", "skipped", "failed"}

\* C6: under fair scheduling a run whose endpoint answers every call, be it
\* with a failure every time, comes to its end.
C6_RunCompletes == (api # "silent") => <>RunComplete

\* the endpoint refused every call and the run is over: every document had
\* its one request and was rewritten from the local rules
C6_Witness ==
  /\ api = "down" /\ RunComplete /\ phase = "finished" /\ files >= 2
  /\ \A d \in 1..files :
       /\ doc[d].requests = 1 /\ doc[d].outcome = "written"
       /\ doc[d].disk = "local"

FailureOutcomes ==
  {"network_error", "status_error", "bad_json", "no_summary_field"}

\* C7: without an endpoint no request is sent and the summary is the local
\* one; with an endpoint a rewritten document had exactly one request, a
\* prose response is the summary written, and a failure or a code-like
\* response gives the local summary.
C7_ProviderStateMachine ==
  /\ \A d \in 1..files :
       /\ doc[d].requests <= 1
       /\ api = "none" => doc[d].requests = 0 /\ doc[d].disk # "api"
       /\ (api # "none" /\ doc[d].outcome = "written") => doc[d].requests = 1
       /\ doc[d].outcome = "written" <=> doc[d].disk # "original"
  /\ \A w \in Workers :
       (seen[w].doc # 0 /\ doc[seen[w].doc].outcome = "written") =>
         /\ seen[w].response = "prose" => doc[seen[w].doc].disk = "api"
         /\ seen[w].response \in FailureOutcomes \cup {"code_like", "empty"} =>
              doc[seen[w].doc].disk = "local"

----------------------------------------------------------------------------
(* toDeclarativeSentence on every short text                               *)

SentenceAlphabet == {"a", " ", ".", ",", ":", Quote}

InitSentence ==
  /\ PoolAtRest
  /\ stage = "ready"
  /\ input \in [text : TextsUpTo(SentenceAlphabet, MaxTextLen),
                maxLen : 1..MaxSentenceLen]
  /\ output = <<>>

CallSentence ==
  /\ stage = "ready"
  /\ output' = toDeclarativeSentence(input.text, input.maxLen)
  /\ stage' = "done"
  /\ UNCHANGED <<input, poolVars>>

SpecSentence == InitSentence /\ [][CallSentence]_vars

\* C9: for every text and every maxLen >= 1 the sentence has at most maxLen
\* units; a non-empty sentence ends with the full stop; the empty text gives
\* the empty sentence.
C9_LengthBound ==
  stage = "done" =>
    /\ Len(output) <= input.maxLen
    /\ output # <<>> => EndsWith(output, FullStop)
    /\ input.text = <<>> => output = <<>>

----------------------------------------------------------------------------
(* The gate of processOne on every short provider response                 *)

ResponseChunks ==
  {<<"a">>, <<" ">>, <<".">>, <<"(">>, <<"=", ">">>, <<Backtick>>, Fence,
   KeywordFunction}

\* the document the responses are for: a title and a body of plain prose
GateTitle == <<"T">>
GateBody == <<"b", "o", "d", "y">>

InitGate ==
  /\ PoolAtRest
  /\ stage = "ready"
  /\ \E cs \in TextsUpTo(ResponseChunks, MaxChunks) :
       input = [response |-> Flatten(cs)]
  /\ output = <<>>

\* lines 784-794 with a 2xx response whose summary field is the string
CallGate ==
  /\ stage = "ready"
  /\ output' = ChooseSummary(ApiText(input.response), GateTitle, GateBody)
  /\ stage' = "done"
  /\ UNCHANGED <<input, poolVars>>

SpecGate == InitGate /\ [][CallGate]_vars

\* the summary the local rules give for the gate's document
GateLocalSummary ==
  toDeclarativeSentence(
    localGenerateSummary(GateTitle, GateBody, SUMMARY_MAX_LEN), SUMMARY_MAX_LEN)

\* C8: a 2xx response whose text scores 2 or more is rejected: the summary
\* written is the local one, not the provider text.
C8_CodeLikeRejected ==
  (stage = "done" /\ CodeScore(input.response) >= 2) =>
    (output.source = "local" /\ output.text = GateLocalSummary)

----------------------------------------------------------------------------
(* The rewrite of processOne on every small document                       *)

TitlePlain == <<"t","i","t","l","e",":"," ","T">>
TitleQuoted == <<"t","i","t","l","e",":"," ",Quote,"T",Quote>>
DateLine == <<"d",":"," ","D">>
OldSummaryQuoted == <<"s","u","m","m","a","r","y",":"," ",Quote,"A",Quote>>
OldSummaryCapital == <<"S","u","m","m","a","r","y",":"," ","B">>
NoiseLine == <<"x"," ","x">>
FenceLine == Fence
ListLine == <<"-"," ","a">>
CommentLine == <<"#"," ","c">>

SampleFmLines ==
  {TitlePlain, TitleQuoted, DateLine, OldSummaryQuoted, OldSummaryCapital,
   NoiseLine, FenceLine, ListLine, CommentLine}

SampleBodies ==
  { <<>>,
    <<"a", ".", "b", LF>>,
    Fence \o <<"x">> \o Fence \o <<LF>> }

SampleApiSummaries == {NoSummary, ApiText(<<"p", Quote, "q">>)}

\* a file that opens with a delimited block of the given lines
WithBlock(ls, body) ==
  Dashes \o <<LF>>
  \o Flatten([i \in 1..Len(ls) |-> ls[i] \o <<LF>>])
  \o Dashes \o <<LF>> \o body

InitWrite ==
  /\ PoolAtRest
  /\ stage = "ready"
  /\ \E body \in SampleBodies, a \in SampleApiSummaries :
       \/ input = [content |-> body, apiSummary |-> a]
       \/ \E ls \in TextsUpTo(SampleFmLines, MaxFmLines) :
            input = [content |-> WithBlock(ls, body), apiSummary |-> a]
  /\ output = <<>>

\* lines 747-751 and 784-798 of processOne
CallWrite ==
  /\ stage = "ready"
  /\ output' = RewrittenDocument(input.content, input.apiSummary, DefaultWordLimit)
  /\ stage' = "done"
  /\ UNCHANGED <<input, poolVars>>

SpecWrite == InitWrite /\ [][CallWrite]_vars

\* the line is summary: "v" with every double quote inside v escaped
IsQuotedSummaryLine(line) ==
  LET n == Len(SummaryKey) + 2
      v == From(line, n + 1)
  IN /\ StartsAt(line, 1, SummaryKey \o <<":", " ">>)
     /\ Len(v) >= 2 /\ v[1] = Quote /\ v[Len(v)] = Quote
     /\ \A i \in 2..(Len(v) - 1) : v[i] = Quote => v[i - 1] = Backslash

\* C10: the block written has exactly one summary key, on the last line
\* before the closing delimiter, its value a double-quoted scalar with every
\* inner double quote escaped.
C10_OneQuotedSummaryLast ==
  stage = "done" =>
    LET ls == SplitLines(output.frontmatter)
        n == Len(ls)
    IN /\ n >= 4
       /\ ls[1] = Dashes /\ ls[n - 1] = Dashes /\ ls[n] = <<>>
       /\ ClosingIndex(ls, 0) = n - 1
       /\ Cardinality({i \in 1..n : IsSummaryLine(ls[i])}) = 1
       /\ IsQuotedSummaryLine(ls[n - 2])

----------------------------------------------------------------------------
(* upsertSummaryInFrontmatter applied twice                                *)

\* a line of dashes with a trailing blank: a closing delimiter for the
\* trim() of upsertSummaryInFrontmatter, not for splitFrontmatterAndBody
DashesBlank == Dashes \o <<" ">>

UpsertFmLines ==
  {TitlePlain, OldSummaryQuoted, OldSummaryCapital, NoiseLine, ListLine,
   DashesBlank}

SummaryAlphabet == {"a", Quote, LF, "#"}

\* a front-matter block as splitFrontmatterAndBody returns it: from the
\* opening delimiter to the closing one, without the line end after it
Block(ls) ==
  Dashes \o <<LF>> \o Flatten([i \in 1..Len(ls) |-> ls[i] \o <<LF>>]) \o Dashes

InitUpsert ==
  /\ PoolAtRest
  /\ stage = "ready"
  /\ \E s \in TextsUpTo(SummaryAlphabet, MaxSummaryLen) :
       \/ input = [frontmatter |-> <<>>, summary |-> s]
       \/ \E ls \in TextsUpTo(UpsertFmLines, MaxBlockLines) :
            input = [frontmatter |-> Block(ls), summary |-> s]
  /\ output = <<>>

\* lines 605-635, the first application
CallUpsert ==
  /\ stage = "ready"
  /\ output' = [once |-> upsertSummaryInFrontmatter(input.frontmatter, input.summary),
                twice |-> <<>>]
  /\ stage' = "once"
  /\ UNCHANGED <<input, poolVars>>

\* lines 605-635, applied to its own result with the same summary
CallUpsertAgain ==
  /\ stage = "once"
  /\ output' = [output EXCEPT
                  !.twice = upsertSummaryInFrontmatter(output.once, input.summary)]
  /\ stage' = "done"
  /\ UNCHANGED <<input, poolVars>>

SpecUpsert == InitUpsert /\ [][CallUpsert \/ CallUpsertAgain]_vars

SingleLine(s) == \A i \in 1..Len(s) : s[i] # LF

\* the number of lines of the block that are a summary key line, and the
\* number that are a delimiter after the first line
SummaryLines(fm) ==
  Cardinality({i \in 1..Len(SplitLines(fm)) : IsSummaryLine(SplitLines(fm)[i])})

ClosingDelimiters(fm) ==
  Cardinality({i \in 2..Len(SplitLines(fm)) : Trim(SplitLines(fm)[i]) = Dashes})

\* C11 as stated: for every block and every summary text the second upsert
\* gives what the first gave.
C11_UpsertIdempotentAnyText ==
  stage = "done" => output.twice = output.once

\* C11, the part that holds: for every block and every summary text of one
\* line the second upsert gives what the first gave, with one summary line and one closing
\* delimiter.
C11_UpsertIdempotent ==
  (stage = "done" /\ SingleLine(input.summary)) =>
    /\ output.twice = output.once
    /\ SummaryLines(output.twice) = 1
    /\ ClosingDelimiters(output.twice) = 1

\* a block with a title and an old summary was upserted twice with a
\* one-line summary that holds a double quote
C11_Witness ==
  /\ stage = "done"
  /\ input.frontmatter = Block(<<TitlePlain, OldSummaryQuoted>>)
  /\ input.summary = <<"a", Quote>>
  /\ output.twice = output.once

----------------------------------------------------------------------------
(* splitFrontmatterAndBody on small documents                              *)

SplitFmLines == {TitleQuoted, OldSummaryQuoted, DateLine}

SplitBodies == { <<>>, <<"b">>, <<"b", LF>>, <<LF, "b", LF>> }

\* what may stand before the first delimiter: nothing, or an empty line
SplitLeads == { <<>>, <<LF>> }

BlocksOfLines ==
  {ls \in TextsUpTo(SplitFmLines, MaxBlockLines) : ls # <<>>}

\* documents without a block, with one block, and with two blocks back to
\* back; the record keeps how the content was put together
InitSplit ==
  /\ PoolAtRest
  /\ stage = "ready"
  /\ \E lead \in SplitLeads, body \in SplitBodies :
       \/ input = [content |-> lead \o body, blocks |-> 0,
                   first |-> <<>>, second |-> <<>>, body |-> body]
       \/ \E l1 \in BlocksOfLines :
            input = [content |-> lead \o WithBlock(l1, body), blocks |-> 1,
                     first |-> l1, second |-> <<>>, body |-> body]
       \/ \E l1 \in BlocksOfLines, l2 \in BlocksOfLines :
            input = [content |-> lead \o WithBlock(l1, WithBlock(l2, body)),
                     blocks |-> 2, first |-> l1, second |-> l2, body |-> body]
  /\ output = <<>>

\* lines 388-415
CallSplit ==
  /\ stage = "ready"
  /\ output' = splitFrontmatterAndBody(input.content)
  /\ stage' = "done"
  /\ UNCHANGED <<input, poolVars>>

SpecSplit == InitSplit /\ [][CallSplit]_vars

\* a text without the line ends at its end
WithoutTrailingNewlines(s) == DropTrailing(s, {LF, CR})

\* C12: for a document with no block or one block, the front-matter and the
\* body that splitFrontmatterAndBody returns, put together unchanged, are the
\* content again up to the number of line ends at its end.
C12_SplitRejoinRoundTrip ==
  (stage = "done" /\ input.blocks <= 1) =>
    WithoutTrailingNewlines(output.frontmatter \o output.body)
      = WithoutTrailingNewlines(input.content)

WithoutSummaryLines(ls) == SelectSeq(ls, LAMBDA l : ~IsSummaryLine(l))

\* C13: for a document that starts with two blocks back to back the block
\* returned holds the lines of the first block and then those of the second
\* that are no summary line, and the body is the text after the second block.
C13_AdjacentBlocksMerged ==
  (stage = "done" /\ input.blocks = 2) =>
    LET ls == SplitLines(output.frontmatter)
        close == ClosingIndex(ls, Len(ls) + 1)
    IN /\ ls # <<>> /\ ls[1] = Dashes
       /\ SubSeq(ls, 2, close - 1)
            = WithoutSummaryLines(input.first) \o WithoutSummaryLines(input.second)
       /\ output.body = StripLeadingNewlines(input.body)

----------------------------------------------------------------------------
(* The body of the document across the rewrite of processOne               *)

HeaderLines == {TitlePlain, OldSummaryQuoted, NoiseLine, DashesBlank}

RewriteBodies == { <<>>, <<"b", LF>>, <<LF, "b", LF>> }

RewriteApiSummaries == {NoSummary, ApiText(<<"p">>)}

InitRewrite ==
  /\ PoolAtRest
  /\ stage = "ready"
  /\ \E body \in RewriteBodies, a \in RewriteApiSummaries :
       \/ input = [content |-> body, apiSummary |-> a]
       \/ \E ls \in TextsUpTo(HeaderLines, MaxHeaderLines) :
            input = [content |-> WithBlock(ls, body), apiSummary |-> a]
  /\ output = <<>>

\* lines 747-751 and 784-798 of processOne, and the file read again
CallRewrite ==
  /\ stage = "ready"
  /\ output' = RewrittenDocument(input.content, input.apiSummary, DefaultWordLimit)
  /\ stage' = "done"
  /\ UNCHANGED <<input, poolVars>>

SpecRewrite == InitRewrite /\ [][CallRewrite]_vars

\* C14: the file written is the new block followed by the body of the file
\* read, and the text after the front-matter block of the file written is
\* the body of the file read.
C14_BodyUnaltered ==
  stage = "done" =>
    /\ output.content
         = output.frontmatter \o splitFrontmatterAndBody(input.content).body
    /\ splitFrontmatterAndBody(output.content).body
         = splitFrontmatterAndBody(input.content).body
    /\ extractBodyOnly(output.content) = extractBodyOnly(input.content)

\* C14, the part that holds: when the summary written is a single line, the
\* body read back from the file written is the body of the file read.
C14_BodyUnalteredOneLineSummary ==
  (stage = "done" /\ SingleLine(output.summary)) =>
    /\ splitFrontmatterAndBody(output.content).body
         = splitFrontmatterAndBody(input.content).body
    /\ extractBodyOnly(output.content) = extractBodyOnly(input.content)

----------------------------------------------------------------------------
(* getConcurrency: side-file, environment, default                         *)

DefaultConcurrency == 3

\* null, as the readers return it
Null == -1

DigitValue(c) ==
  CASE c = "0" -> 0 [] c = "1" -> 1 [] c = "2" -> 2 [] c = "3" -> 3
    [] c = "4" -> 4 [] c = "5" -> 5 [] c = "6" -> 6 [] c = "7" -> 7
    [] c = "8" -> 8 [] c = "9" -> 9

\* the number a run of decimal digits denotes
RECURSIVE DigitsValue(_)
DigitsValue(ds) ==
  IF ds = <<>> THEN 0
  ELSE 10 * DigitsValue(SubSeq(ds, 1, Len(ds) - 1)) + DigitValue(ds[Len(ds)])

\* the longest prefix of s made of digits
DigitPrefix(s) == SubSeq(s, 1, Len(s) - Len(DropWhile(s, Digits)))

\* parseInt(s, 10): leading white space is skipped, a sign is taken, then the
\* longest run of digits; NaN (here Null: it fails every test the callers
\* make) when there is no digit at that place
parseInt(s) ==
  LET t == DropWhile(s, Whitespace)
      signed == t # <<>> /\ Head(t) \in {"-", "+"}
      ds == DigitPrefix(IF signed THEN Tail(t) ELSE t)
  IN IF ds = <<>> THEN Null
     ELSE IF signed /\ Head(t) = "-" THEN 0 - DigitsValue(ds) ELSE DigitsValue(ds)

\* A source holds a value text or holds none: the side-file has a line
\* // AISUMMARY_CONCURRENCY=text (or the file or the line is missing), the
\* environment has the variable set to text (or unset).
Absent == [present |-> FALSE, text |-> <<>>]

\* lines 181-189: the pattern wants [0-9]+ and then only white space up to
\* the end of the line
readConcurrencyFromCustom(src) ==
  LET v == DropTrailing(src.text, Whitespace)
  IN IF ~src.present \/ v = <<>> \/ DigitPrefix(v) # v THEN Null
     ELSE IF DigitsValue(v) > 0 THEN DigitsValue(v) ELSE Null

\* lines 194-198
readConcurrencyFromEnv(src) ==
  LET v == parseInt(IF src.present THEN src.text ELSE <<>>)
  IN IF v # Null /\ v > 0 THEN v ELSE Null

\* lines 203-205
clampConcurrency(n) ==
  LET low == IF n < MaxConcurrency THEN n ELSE MaxConcurrency
  IN IF low > 1 THEN low ELSE 1

\* lines 210-213
getConcurrency(custom, env) ==
  LET a == readConcurrencyFromCustom(custom)
      b == readConcurrencyFromEnv(env)
  IN clampConcurrency(IF a # Null THEN a ELSE IF b # Null THEN b
                      ELSE DefaultConcurrency)

ValueAlphabet == {"0", "4", "7", "a", "-"}

ConfigSources ==
  {Absent} \cup {[present |-> TRUE, text |-> t] :
                   t \in TextsUpTo(ValueAlphabet, MaxValueLen)}

InitConfig ==
  /\ PoolAtRest
  /\ stage = "ready"
  /\ input \in [custom : ConfigSources, env : ConfigSources]
  /\ output = <<>>

CallConcurrency ==
  /\ stage = "ready"
  /\ output' = getConcurrency(input.custom, input.env)
  /\ stage' = "done"
  /\ UNCHANGED <<input, poolVars>>

SpecConfig == InitConfig /\ [][CallConcurrency]_vars

\* the value text is a positive integer in decimal digits
IsPositiveInteger(src) ==
  /\ src.present /\ src.text # <<>>
  /\ \A i \in 1..Len(src.text) : src.text[i] \in Digits
  /\ DigitsValue(src.text) > 0

\* C15: the resolved concurrency is the first valid positive integer in the
\* order side-file, environment, default 3, clamped to 1..5; a value that is
\* absent, not an integer or not positive falls through to the next source.
C15_ConcurrencyLayered ==
  stage = "done" =>
    LET first == IF IsPositiveInteger(input.custom)
                 THEN DigitsValue(input.custom.text)
                 ELSE IF IsPositiveInteger(input.env)
                      THEN DigitsValue(input.env.text)
                      ELSE DefaultConcurrency
    IN /\ output \in 1..MaxConcurrency
       /\ output = IF first > MaxConcurrency THEN MaxConcurrency ELSE first

\* the environment value is one parseInt and the pattern of the side-file
\* agree on: all digits, or without a positive numeric prefix
ReadAlikeInEnv(src) ==
  \/ ~src.present
  \/ DigitPrefix(src.text) = src.text
  \/ parseInt(src.text) = Null
  \/ parseInt(src.text) <= 0

\* C15, the part that holds: for those environment values the resolved
\* concurrency is the clamp of the first valid positive integer, else of 3.
C15_ConcurrencyLayeredStrictEnv ==
  (stage = "done" /\ ReadAlikeInEnv(input.env)) =>
    LET first == IF IsPositiveInteger(input.custom)
                 THEN DigitsValue(input.custom.text)
                 ELSE IF IsPositiveInteger(input.env)
                      THEN DigitsValue(input.env.text)
                      ELSE DefaultConcurrency
    IN /\ output \in 1..MaxConcurrency
       /\ output = IF first > MaxConcurrency THEN MaxConcurrency ELSE first

----------------------------------------------------------------------------
(* callSummaryAPI: the request and the place of the credential             *)

\* the units a credential is made of here, with their code points: a
\* letter, DEL (the last unit of the class of isASCII), the first unit
\* above it, and an ideograph
KeyAlphabet == {"k", "U+007F", "U+0080", "U+4E2D"}

CodePoint(c) ==
  CASE c = "k" -> 107 [] c = "U+007F" -> 127 [] c = "U+0080" -> 128
    [] c = "U+4E2D" -> 20013

\* a test that lets every unit of one byte through
isLatin1(str) == \A i \in 1..Len(str) : CodePoint(str[i]) \in 0..255

\* lines 81-83: /^[\x00-\x7F]*$/.test(str)
isASCII(str) == \A i \in 1..Len(str) : CodePoint(str[i]) \in 0..127

Bearer == <<"B", "e", "a", "r", "e", "r", " ">>

ApplicationJson == <<"j", "s", "o", "n">>

\* lines 669-686: the headers and the payload of the request that is sent
\* for a title, a body and the two sources of the key (the empty text for a
\* source without a key)
SummaryRequest(title, body, limit, cfgKey, envKey) ==
  LET key == IF cfgKey # <<>> THEN cfgKey ELSE envKey
      inHeader == key # <<>> /\ isASCII(key)
      inPayload == key # <<>> /\ ~isASCII(key)
  IN [headers |->
        [h \in {"Content-Type", "Accept"}
                 \cup (IF inHeader THEN {"Authorization"} ELSE {}) |->
           IF h = "Authorization" THEN Bearer \o key ELSE ApplicationJson],
      payload |->
        [f \in {"title", "content", "wordLimit"}
                 \cup (IF inPayload THEN {"apiKey"} ELSE {}) |->
           CASE f = "title" -> title
             [] f = "content" -> limitBody(body, limit)
             [] f = "wordLimit" -> limit
             [] f = "apiKey" -> key]]

RequestTitle == <<"T">>
RequestBody == <<"b", "o", "d", "y">>

InitRequest ==
  /\ PoolAtRest
  /\ stage = "ready"
  /\ input \in [cfgKey : TextsUpTo(KeyAlphabet, MaxKeyLen),
                envKey : TextsUpTo(KeyAlphabet, MaxKeyLen)]
  /\ output = <<>>

CallRequest ==
  /\ stage = "ready"
  /\ output' = SummaryRequest(RequestTitle, RequestBody, DefaultWordLimit,
                              input.cfgKey, input.envKey)
  /\ stage' = "done"
  /\ UNCHANGED <<input, poolVars>>

SpecRequest == InitRequest /\ [][CallRequest]_vars

\* the text k stands somewhere in the text s
Contains(s, k) == \E i \in 1..(Len(s) + 1) : StartsAt(s, i, k)

\* the credential the request is made with: the side-file before the
\* environment
Credential == IF input.cfgKey # <<>> THEN input.cfgKey ELSE input.envKey

InSomeHeader(k) ==
  \E h \in DOMAIN output.headers : Contains(output.headers[h], k)

InSomeTextField(k) ==
  \E f \in DOMAIN output.payload \ {"wordLimit"} : Contains(output.payload[f], k)

\* C16: a non-empty credential of ASCII units only is in the Authorization
\* header as Bearer and in no field of the body; a credential with a unit
\* above 0x7F is the apiKey field of the body and in no header; an empty
\* credential gives neither the header nor the field.
C16_CredentialPlacement ==
  stage = "done" =>
    LET ascii == \A i \in 1..Len(Credential) : CodePoint(Credential[i]) < 128
    IN /\ (Credential # <<>> /\ ascii) =>
            /\ "Authorization" \in DOMAIN output.headers
            /\ output.headers["Authorization"] = Bearer \o Credential
            /\ "apiKey" \notin DOMAIN output.payload
            /\ ~InSomeTextField(Credential)
       /\ (Credential # <<>> /\ ~ascii) =>
            /\ "apiKey" \in DOMAIN output.payload
            /\ output.payload["apiKey"] = Credential
            /\ "Authorization" \notin DOMAIN output.headers
            /\ ~InSomeHeader(Credential)
       /\ Credential = <<>> =>
            /\ "Authorization" \notin DOMAIN output.headers
            /\ "apiKey" \notin DOMAIN output.payload

\* the side-file has no key and the key of the environment holds the first
\* unit above 0x7F: the request carries it as apiKey and has no
\* Authorization header
C16_Witness ==
  /\ stage = "done"
  /\ input.cfgKey = <<>> /\ input.envKey = <<"k", "U+0080">>
  /\ "apiKey" \in DOMAIN output.payload
  /\ output.payload["apiKey"] = <<"k", "U+0080">>
  /\ "Authorization" \notin DOMAIN output.headers

----------------------------------------------------------------------------
(* The pool is bounded                                                     *)

\* the documents handed to processOne and not yet concluded
InProcess == {d \in 1..files : doc[d].dispatched > 0 /\ doc[d].outcome = "pending"}

\* C17: a run with documents makes exactly as many workers as the
\* concurrency after the ask adjustment, a worker holds at most one document, the documents in
\* process are never more than that concurrency nor more than 5, and a
\* worker beyond the number of documents takes nothing and has finished as
\* soon as it is made.
C17_BoundedPool ==
  LET effective == IF policy = "ask" THEN 1 ELSE configured
  IN /\ configured \in 1..MaxConcurrency
     /\ (Started /\ files > 0) => concurrency = effective
     /\ spawned <= concurrency
     /\ (phase \in {"running", "finished"} /\ files > 0) => spawned = effective
     /\ \A w \in Workers : (pc[w] # "unborn") <=> w <= spawned
     /\ \A w \in Workers : (cur[w] # 0) <=> pc[w] \in Suspended
     /\ InProcess = {cur[w] : w \in Workers} \ {0}
     /\ Cardinality(InProcess) <= spawned
     /\ Cardinality(InProcess) <= MaxConcurrency
     /\ \A w \in Workers :
          w > files =>
            /\ pc[w] \in {"unborn", "exited"} /\ cur[w] = 0
            /\ seen[w] = NothingSeen

\* five workers were made for two documents: two are suspended in a document
\* each, the other three have finished without one
C17_Witness ==
  /\ configured = MaxConcurrency /\ spawned = MaxConcurrency /\ files = 2
  /\ pc[1] \in Suspended /\ pc[2] \in Suspended
  /\ \A w \in 3..MaxConcurrency : pc[w] = "exited"
  /\ Cardinality(InProcess) = 2

====
